---- MODULE Spec2Model ----
(***************************************************************************)
(* Socrates backend: one request that compiles and runs a C++ submission   *)
(* in a throwaway Docker container (executeCode), through the execute      *)
(* route or through classifyTestResults.                                   *)
(*                                                                         *)
(* Text is modelled line by line.  A line is a record holding the concrete *)
(* text it stands for (id) and the result of every test the code applies   *)
(* to a line: the set f of tracked substrings the line contains, the       *)
(* "Test Case <n> ...: PASSED|FAILED" match (tc, st), the "Summary: p/t"   *)
(* match (sum) and the "EXIT_CODE:<n>" match (sent).  A compiler diagnostic *)
(* also holds its parts (diag), which is what parseCompilerError's pattern *)
(* is matched against.  A text is the sequence of its lines joined by      *)
(* "\n"; the empty string is << >>.                                        *)
(***************************************************************************)
EXTENDS Integers, Sequences, FiniteSets, TLC

VARIABLES
  entry,        \* which caller serves the request: "classify" or "execute"
  src,          \* the request: [valid, sizeOk, hasMain, testIndex]
  pc,           \* position of the request in its handler
  tempDir,      \* the caller's tempDir variable: "null" or "dir"
  wsExists,     \* the workspace directory exists on disk
  cleanupCalls, \* number of cleanupTempDir calls
  caught,       \* exception caught by the caller ("none" or its message)
  container,    \* executeCode's container variable: "null" or "set"
  cState,       \* the runtime's view of the container
  stalls,       \* the script does not finish on its own (unbounded compile)
  prog,         \* what the script did in the container
  calls,        \* number of Docker API calls made, by kind
  pend,         \* completion of executeCode's try/catch, before finally
  ret,          \* completion of executeCode as seen by the caller
  rejected,     \* message of the rejection that ended the wait race
  hist,         \* what happened inside executeCode (failed calls, teardown replies)
  logged,       \* console.error lines written by teardown and cleanup
  outcome,      \* what the caller answers
  fn,           \* the function applied on its own ("none" while a request runs)
  arg,          \* its argument
  val,          \* its value, once it returned
  requests,     \* concurrent requests: each one's position and local variables
  temp,         \* the directories under TEMP_DIR, by name
  daemon        \* the containers of the runtime, by id

\* the state of one request
reqVars == <<entry, src, pc, tempDir, wsExists, cleanupCalls, caught, container,
             cState, stalls, prog, calls, pend, ret, rejected, hist, logged, outcome>>

\* the state of a function applied on its own
fnVars == <<fn, arg, val>>

\* the state of requests running side by side
conVars == <<requests, temp, daemon>>

auxVars == <<fnVars, conVars>>

vars == <<reqVars, auxVars>>

(***************************************************************************)
(* Bounds                                                                  *)
(***************************************************************************)
\* longest output of a self-contained program, in lines
MaxLines == 2

(***************************************************************************)
(* Lines                                                                   *)
(***************************************************************************)
\* the parts of "<prefix><stem>.<ext>:<line>[:<col>]: <lead><sev>: <msg>"; a
\* line that is no diagnostic has none (col -1: no column given)
NoDiag ==
  [prefix |-> "", stem |-> "", ext |-> "", line |-> -1, col |-> -1, lead |-> "",
   sev |-> "", msg |-> ""]

L(id, f, tc, st, sum, sent) ==
  [id |-> id, f |-> f, tc |-> tc, st |-> st, sum |-> sum, sent |-> sent,
   diag |-> NoDiag]

Ln(id, f) == L(id, f, 0, "", << >>, -1)

\* the tracked substrings of the diagnostic messages used below
MsgTags(msg) ==
  CASE msg = "expected ';' before '}' token" -> {"expected", "before"}
    [] msg = "expected ';' before '}'" -> {"expected", "before"}
    [] msg = "'x' was not declared in this scope" -> {"not declared", "was not declared"}
    [] msg = "undefined reference to `foo()'" -> {"undefined", "undefined reference"}
    [] msg = "cannot convert 'int' to 'std::string' after promotion" ->
         {"cannot convert", "after"}
    [] msg = "invalid conversion from 'int' to 'int*'" -> {"invalid conversion"}
    [] msg = "foo.h: No such file or directory" -> {"no such file"}
    [] msg = "ld returned 1 exit status" -> {"ld returned"}
    [] msg = "linker command failed with exit code 1" -> {"linker"}
    [] msg = "Undefined Reference to `bar'" -> {"undefined", "undefined reference"}
    [] OTHER -> {}

\* a compiler diagnostic line built from its parts
Diag(prefix, stem, ext, line, col, lead, sev, msg) ==
  [Ln(prefix \o stem \o "." \o ext \o ":" \o ToString(line)
        \o (IF col >= 0 THEN ":" \o ToString(col) ELSE "")
        \o ": " \o lead \o sev \o ": " \o msg,
      MsgTags(msg) \union {sev \o ":"}
        \union (IF prefix = "" /\ stem = "main" /\ ext = "cpp"
                THEN {"^main.cpp:"} ELSE {}))
   EXCEPT !.diag = [prefix |-> prefix, stem |-> stem, ext |-> ext, line |-> line,
                    col |-> col, lead |-> lead, sev |-> sev, msg |-> msg]]

Blank      == Ln("", {"blank"})
Plain      == Ln("hello", {})
Caret      == Ln("      ^", {"^caret"})
CaretCut   == Ln("^", {})
SrcLine    == Ln("    5 | int main(){return 0}", {})
Err        == Diag("", "main", "cpp", 5, 10, "", "error",
                   "expected ';' before '}' token")
ErrHpp     == Diag("", "solution", "hpp", 4, 3, "", "error",
                   "'x' was not declared in this scope")
FatalErr   == Diag("", "main", "cpp", 1, 10, "fatal ", "error",
                   "foo.h: No such file or directory")
Terminated == Ln("compilation terminated.", {})
UndefRef   == Ln("/usr/bin/ld: main.cpp:(.text+0x20): undefined reference to `foo()'",
                 {"undefined reference"})
InclFrom   == Ln("In file included from main.cpp:15:", {})
Warn       == Diag("", "main", "cpp", 3, 7, "", "warning",
                   "unused variable 'x' [-Wunused-variable]")
WarnHpp    == Diag("", "solution", "hpp", 6, 9, "", "warning",
                   "unused variable 'x' [-Wunused-variable]")
Collect2   == Ln("collect2: error: ld returned 1 exit status",
                 {"error:", "collect2:", "ld returned"})
ErrSp      == Ln("error here", {"error "})
Terminate  == Ln("terminate called after throwing an instance of 'std::runtime_error'",
                 {"terminate called"})
WhatLine   == Ln("  what():  boom", {})
Segv       == Ln("Segmentation fault (core dumped)", {"segmentation fault"})
AllPassed  == Ln("All tests passed!", {})
SomeFailed == Ln("Some tests failed.", {})
Separator  == Ln("-----------------------------", {})
ConsoleStart == Ln("CONSOLE_START", {})
ConsoleEnd   == Ln("CONSOLE_END", {})

\* "EXIT_CODE:<n>"
Sentinel(n) == L("EXIT_CODE:" \o ToString(n), {}, 0, "", << >>, n)

\* "Summary: <p>/<t> tests passed."
Summary(p, t) ==
  L("Summary: " \o ToString(p) \o "/" \o ToString(t) \o " tests passed.",
    {}, 0, "", <<p, t>>, -1)

Header(n) == "Test Case " \o ToString(n) \o " - Example " \o ToString(n) \o ": "

\* what the harness prints after the header of a case, by outcome of the case
StatusText(o) ==
  CASE o = "pass"      -> "PASSED"
    [] o = "mismatch"  -> "FAILED"
    [] o = "throw"     -> "FAILED (exception: boom)"
    [] o = "throwWarn" -> "FAILED (exception: warning: bad)"

StatusTags(o) ==
  CASE o = "pass"      -> {}
    [] o = "mismatch"  -> {}
    [] o = "throw"     -> {"exception", "exception:", "failed (exception"}
    [] o = "throwWarn" -> {"exception", "exception:", "failed (exception", "warning:"}

StatusWord(o) == IF o = "pass" THEN "PASSED" ELSE "FAILED"

\* "Test Case <n> - Example <n>: PASSED|FAILED..." on one line
HeaderStatus(n, o) ==
  L(Header(n) \o StatusText(o), {"test case"} \union StatusTags(o), n,
    StatusWord(o), << >>, -1)

\* the status alone on a line, after the solution printed a full line
StatusOnly(o) == Ln(StatusText(o), StatusTags(o))

\* "Test Case <n> - Example <n>: " with nothing after it
HeaderOnly(n) == L(Header(n), {"test case"}, n, "", << >>, -1)

\* the header followed by a line the solution printed
HeaderPrint(n, p) ==
  CASE p = "errsp" -> L(Header(n) \o "error here", {"test case", "error "}, n, "", << >>, -1)
    [] p = "forge" -> L(Header(n) \o "EXIT_CODE:0", {"test case"}, n, "", << >>, 0)

\* a line the solution printed, on a line of its own
PrintLine(p) == IF p = "errsp" THEN ErrSp ELSE Sentinel(0)

InputLine(n)    == Ln("  Input:     <case " \o ToString(n) \o ">", {})
ExpectedLine(n) == Ln("  Expected:  <case " \o ToString(n) \o ">", {})
OutputLine(n)   == Ln("  Output:    <case " \o ToString(n) \o ">", {})

\* the loop of vectorToString: the elements separated by ", "
RECURSIVE JoinValues(_)
JoinValues(values) ==
  IF Len(values) = 1 THEN ToString(Head(values))
  ELSE ToString(Head(values)) \o ", " \o JoinValues(Tail(values))

\* a rendering without the space after the comma
vectorToStringCompact(values) ==
  IF values = << >> THEN "[]"
  ELSE IF Len(values) = 1 THEN "[" \o ToString(values[1]) \o "]"
  ELSE "[" \o ToString(values[1]) \o "," \o ToString(values[2]) \o "]"

vectorToString(values) ==
  IF values = << >> THEN "[]" ELSE "[" \o JoinValues(values) \o "]"

ReturnValue(values) == Ln("RETURN_VALUE:" \o vectorToString(values), {})

\* messages the orchestrator writes itself
TimeoutMsg  == Ln("Execution timed out. Your program took too long to run.", {})
NoMsg       == Ln("Compilation or execution failed with no error message", {"error "})
ExecErr(m)  == Ln("Execution error: " \o m, {"error:"})
CrashMsg(n) == Ln("Program crashed with exit code " \o ToString(n), {})
ExcMsg      == Ln("Runtime exception detected in test output", {"exception"})
EarlyMsg(n) == Ln("Program exited with code " \o ToString(n) \o " before completing tests", {})

Has(l, s)  == s \in l.f
Includes(t, s) == \E i \in 1..Len(t) : Has(t[i], s)
IsBlank(l) == Has(l, "blank")

\* String.prototype.trim on a text: leading and trailing blank lines go, and
\* the first line loses its indentation
RECURSIVE DropLeading(_)
DropLeading(t) ==
  IF t = << >> THEN << >>
  ELSE IF IsBlank(Head(t)) THEN DropLeading(Tail(t)) ELSE t

RECURSIVE DropTrailing(_)
DropTrailing(t) ==
  IF t = << >> THEN << >>
  ELSE IF IsBlank(t[Len(t)]) THEN DropTrailing(SubSeq(t, 1, Len(t) - 1)) ELSE t

TrimFirst(l) == IF Has(l, "^caret") THEN CaretCut ELSE l

Trim(t) ==
  LET u == DropTrailing(DropLeading(t))
  IN  IF u = << >> THEN << >> ELSE <<TrimFirst(Head(u))>> \o Tail(u)

\* split('\n') and join('\n')
SplitLines(t) == IF t = << >> THEN <<Blank>> ELSE t
JoinLines(ls) == IF ls = <<Blank>> THEN << >> ELSE ls

IsEmptyText(t) == t = << >>
IsBlankText(t) == \A i \in 1..Len(t) : IsBlank(t[i])

(***************************************************************************)
(* errorParser: from the raw error text to ParsedError records             *)
(***************************************************************************)
SyntaxKeywords == {"expected", "syntax", "missing", "before", "after"}

UndefinedKeywords ==
  {"not declared", "undefined", "was not declared", "has not been declared"}

TypeKeywords ==
  {"does not name a type", "cannot convert", "invalid conversion", "no match for",
   "cannot initialize", "incompatible types"}

LinkerKeywords == {"undefined reference", "linker", "ld returned"}

\* the first keyword group that the lower-cased message hits decides
categorizeErrorType(message) ==
  IF MsgTags(message) \cap SyntaxKeywords # {} THEN "syntax"
  ELSE IF MsgTags(message) \cap UndefinedKeywords # {} THEN "undefined"
  ELSE IF MsgTags(message) \cap TypeKeywords # {} THEN "type"
  ELSE IF MsgTags(message) \cap LinkerKeywords # {} THEN "linker"
  ELSE "other"

\* file stems made of word characters only (none starts with a digit)
WordStems == {"main", "solution", "two_sum"}

\* digit prefixes, the empty one included
DigitPrefixes == {"", "3", "12"}

\* a match that accepts any file extension
ErrorMatchAnyExt(l) ==
  /\ l.diag.prefix \in DigitPrefixes
  /\ l.diag.stem \in WordStems
  /\ l.diag.line >= 0
  /\ l.diag.lead = ""
  /\ l.diag.sev \in {"error", "warning"}
  /\ l.diag.msg # ""

\* /^(\d+)?(\w+\.cpp):(\d+)(?::(\d+))?:\s*(error|warning):\s*(.+)$/
ErrorMatch(l) ==
  /\ l.diag.prefix \in DigitPrefixes
  /\ l.diag.stem \in WordStems
  /\ l.diag.ext = "cpp"
  /\ l.diag.line >= 0
  /\ l.diag.lead = ""
  /\ l.diag.sev \in {"error", "warning"}
  /\ l.diag.msg # ""

\* column -1 stands for an undefined column
ParsedError(file, line, column, type, message, rawError) ==
  [file |-> file, line |-> line, column |-> column, type |-> type,
   message |-> message, rawError |-> rawError]

\* the records one line adds (the line is trimmed before it is matched)
ParseLine(l) ==
  IF IsBlank(l) THEN << >>
  ELSE IF ErrorMatch(l)
  THEN <<ParsedError(l.diag.stem \o "." \o l.diag.ext, l.diag.line, l.diag.col,
                     categorizeErrorType(l.diag.msg), l.diag.msg, l.id)>>
  ELSE IF Has(l, "undefined reference")
  THEN <<ParsedError("linker", 0, -1, "linker", l.id, l.id)>>
  ELSE IF Has(l, "collect2:") \/ Has(l, "ld returned")
  THEN <<ParsedError("linker", 0, -1, "linker", l.id, l.id)>>
  ELSE << >>

RECURSIVE ParseLines(_)
ParseLines(ls) ==
  IF ls = << >> THEN << >> ELSE ParseLine(TrimFirst(Head(ls))) \o ParseLines(Tail(ls))

\* the codeSnippet look-ahead is left out: no property below reads it
parseCompilerError(errorText) ==
  IF IsEmptyText(errorText) \/ IsBlankText(errorText) THEN << >>
  ELSE ParseLines(SplitLines(errorText))

(***************************************************************************)
(* executeCode: from the cleaned log text to the ExecutionResult           *)
(***************************************************************************)
\* substrings that put a line in the error section (tested on the lower-cased
\* line; "^main.cpp:" is startsWith('main.cpp:'))
ExecSignatures ==
  {"error:", "error ", "undefined reference", "collect2:", "ld returned",
   "cannot find", "no such file", "multiple definition", "^main.cpp:"}

MatchesExecSignature(l) == \E s \in ExecSignatures : Has(l, s)

\* index of the first line holding EXIT_CODE:<digits>, 0 when there is none
SentinelIndex(t) ==
  IF \E i \in 1..Len(t) : t[i].sent >= 0
  THEN CHOOSE i \in 1..Len(t) :
         /\ t[i].sent >= 0
         /\ \A j \in 1..(i - 1) : t[j].sent < 0
  ELSE 0

\* what is left of a line when it is cut where the sentinel starts
CutBefore(l) == IF l.tc > 0 THEN HeaderOnly(l.tc) ELSE Blank

CleanOutput(logOutput) ==
  LET i == SentinelIndex(logOutput)
  IN  IF i = 0 THEN logOutput
      ELSE Trim(SubSeq(logOutput, 1, i - 1) \o <<CutBefore(logOutput[i])>>)

\* the loop over the lines: acc = [inErr, out, err]
SplitStep(acc, line) ==
  IF MatchesExecSignature(line)
  THEN [inErr |-> TRUE, out |-> acc.out, err |-> Append(acc.err, line)]
  ELSE IF acc.inErr /\ (IsBlank(line) \/ Has(line, "^caret"))
  THEN [acc EXCEPT !.err = Append(acc.err, line)]
  ELSE IF acc.inErr /\ ~Has(line, "warning:")
  THEN [acc EXCEPT !.err = Append(acc.err, line)]
  ELSE [acc EXCEPT !.out = Append(acc.out, line)]

RECURSIVE SplitLoop(_, _)
SplitLoop(acc, ls) ==
  IF ls = << >> THEN acc ELSE SplitLoop(SplitStep(acc, Head(ls)), Tail(ls))

SplitOutput(cleanOutput) ==
  SplitLoop([inErr |-> FALSE, out |-> << >>, err |-> << >>], SplitLines(cleanOutput))

\* parsedErrors is [defined, list]: the field may be left undefined
Parsed(list) == [defined |-> TRUE, list |-> list]
Undefined == [defined |-> FALSE, list |-> << >>]

ExecutionResult(output, errors, parsedErrors, exitCode) ==
  [output |-> output, errors |-> errors, parsedErrors |-> parsedErrors,
   exitCode |-> exitCode]

\* lines 373-453, once the exit code is known
\* a result that keeps only the lines of the error section
BuildResultDiscard(logOutput, exitCode) ==
  LET split == SplitOutput(CleanOutput(logOutput))
  IN  ExecutionResult(IF exitCode # 0 THEN << >> ELSE Trim(JoinLines(split.out)),
                      split.err, Parsed(<< >>), exitCode)

BuildResult(logOutput, exitCode) ==
  LET cleanOutput  == CleanOutput(logOutput)
      split        == SplitOutput(cleanOutput)
      rawErrorText ==
        IF Len(split.err) > 0 THEN split.err
        ELSE IF exitCode # 0
             THEN (IF IsEmptyText(cleanOutput) THEN <<NoMsg>> ELSE cleanOutput)
             ELSE << >>
      parsedErrors ==
        IF IsEmptyText(rawErrorText) THEN << >> ELSE parseCompilerError(rawErrorText)
  IN  IF exitCode # 0
      THEN ExecutionResult(<< >>, rawErrorText, Parsed(parsedErrors), exitCode)
      ELSE ExecutionResult(Trim(JoinLines(split.out)), rawErrorText,
             IF Len(parsedErrors) > 0 THEN Parsed(parsedErrors) ELSE Undefined,
             exitCode)

\* error.message.includes('timeout')
MessageIncludesTimeout(m) ==
  m \in {"Execution timeout", "net/http: TLS handshake timeout"}

\* the catch block of executeCode (every rejection is an Error instance)
CatchResult(m) ==
  IF MessageIncludesTimeout(m)
  THEN ExecutionResult(<< >>, <<TimeoutMsg>>, Parsed(<< >>), 124)
  ELSE ExecutionResult(<< >>, <<ExecErr(m)>>, Parsed(<< >>), 1)

(***************************************************************************)
(* classifyTestResults: from the ExecutionResult to the category           *)
(***************************************************************************)
\* a signature table that lost its first entry
ClassifySignaturesNoError ==
  {"undefined reference", "collect2:", "ld returned", "cannot find",
   "no such file", "multiple definition"}

ClassifySignatures ==
  {"error:", "undefined reference", "collect2:", "ld returned",
   "cannot find", "no such file", "multiple definition"}

\* a crash set without SIGSEGV's 139
runtimeExitCodesNoSegv == {11, 134, 136}

runtimeExitCodes == {139, 11, 134, 136}

runtimeErrorIndicators ==
  {"segmentation fault", "segfault", "terminate called", "exception", "abort",
   "signal", "floating point exception", "double free", "corruption"}

ExceptionMarkers ==
  {"exception:", "failed (exception", "terminate called", "std::exception"}

RECURSIVE FailedIndexes(_)
FailedIndexes(t) ==
  IF t = << >> THEN << >>
  ELSE IF Head(t).tc > 0 /\ Head(t).st = "FAILED"
       THEN <<Head(t).tc - 1>> \o FailedIndexes(Tail(t))
       ELSE FailedIndexes(Tail(t))

MaxOf(S) == CHOOSE m \in S : \A x \in S : x <= m

parseTestOutput(output) ==
  LET hasSummary == \E i \in 1..Len(output) : output[i].sum # << >>
      first == CHOOSE i \in 1..Len(output) :
                 /\ output[i].sum # << >>
                 /\ \A j \in 1..(i - 1) : output[j].sum = << >>
      passed0 == IF hasSummary THEN output[first].sum[1] ELSE 0
      total0  == IF hasSummary THEN output[first].sum[2] ELSE 0
      failures == FailedIndexes(output)
      infer == total0 = 0 /\ Len(failures) > 0
      total == IF infer
               THEN MaxOf({failures[i] : i \in 1..Len(failures)}) + 1
               ELSE total0
      passed == IF infer THEN total - Len(failures) ELSE passed0
  IN  [passed |-> passed, total |-> total, failures |-> failures]

NoTests == [passed |-> 0, total |-> 0, failures |-> << >>]

TestExecutionResult(category, has, compilationErrors, runtimeErrors, testResults, output, exitCode) ==
  [category |-> category, has |-> has, compilationErrors |-> compilationErrors,
   runtimeErrors |-> runtimeErrors, testResults |-> testResults,
   output |-> output, exitCode |-> exitCode]

\* lines 52-170: the priority order over one ExecutionResult
ClassifyResult(result) ==
  LET hasCompilationErrors ==
        /\ ~IsEmptyText(result.errors)
        /\ ~IsBlankText(result.errors)
        /\ \E s \in ClassifySignatures : Includes(result.errors, s)
      isRuntimeExitCode == result.exitCode \in runtimeExitCodes
      hasRuntimeErrorInText ==
        \E s \in runtimeErrorIndicators :
          Includes(result.errors, s) \/ Includes(result.output, s)
      testResults == parseTestOutput(result.output)
      hasExceptionInOutput ==
        \E s \in ExceptionMarkers : Includes(result.output, s)
      crashedEarly ==
        /\ result.exitCode # 0
        /\ testResults.total = 0
        /\ IsEmptyText(result.errors)
        /\ ~IsEmptyText(result.output)
        /\ ~Includes(result.output, "test case")
  IN  IF hasCompilationErrors
      THEN TestExecutionResult("SYNTAX_ERROR", {"compilationErrors", "exitCode"},
             result.errors, << >>, NoTests, << >>, result.exitCode)
      ELSE IF isRuntimeExitCode \/ (result.exitCode # 0 /\ hasRuntimeErrorInText)
      THEN TestExecutionResult("RUNTIME_ERROR", {"runtimeErrors", "output", "exitCode"},
             << >>,
             IF IsEmptyText(result.errors) THEN <<CrashMsg(result.exitCode)>>
                                           ELSE result.errors,
             NoTests, result.output, result.exitCode)
      ELSE IF hasExceptionInOutput
      THEN TestExecutionResult("RUNTIME_ERROR", {"runtimeErrors", "output", "exitCode"},
             << >>, <<ExcMsg>>, NoTests, result.output, result.exitCode)
      ELSE IF crashedEarly
      THEN TestExecutionResult("RUNTIME_ERROR", {"runtimeErrors", "output", "exitCode"},
             << >>, <<EarlyMsg(result.exitCode)>>, NoTests, result.output,
             result.exitCode)
      ELSE IF testResults.passed = testResults.total /\ testResults.total > 0
      THEN TestExecutionResult("NO_ISSUES", {"testResults", "output", "exitCode"},
             << >>, << >>, testResults, result.output, result.exitCode)
      ELSE IF Len(testResults.failures) > 0
      THEN TestExecutionResult("WRONG_ANSWER", {"testResults", "output", "exitCode"},
             << >>, << >>, testResults, result.output, result.exitCode)
      ELSE TestExecutionResult("NO_ISSUES", {"output", "exitCode"},
             << >>, << >>, NoTests, result.output, result.exitCode)

\* the catch block of classifyTestResults
ClassifyCatch(m) ==
  TestExecutionResult("SYNTAX_ERROR", {"compilationErrors"}, <<Ln(m, {})>>,
    << >>, NoTests, << >>, 0)

(***************************************************************************)
(* The container: the compile-and-run script and what it can print         *)
(***************************************************************************)
\* number of cases of the built-in table
NumCases == 3

\* the built-in table of the single-test harness
TestCases ==
  <<[nums |-> <<2, 7, 11, 15>>, target |-> 9, expected |-> <<0, 1>>],
    [nums |-> <<3, 2, 4>>, target |-> 6, expected |-> <<1, 2>>],
    [nums |-> <<3, 3>>, target |-> 6, expected |-> <<0, 1>>]>>

\* what a solution returns for a case: the right indices, always the first
\* two indices, or nothing
Solutions == {"correct", "first", "empty"}

SolutionReturn(sol, case) ==
  CASE sol = "correct" -> case.expected
    [] sol = "first" -> <<0, 1>>
    [] sol = "empty" -> << >>

\* sol and returns describe the one call of a single-test run
Program(kind, compileOut, compileExit, runOut, runExit, killed, cases, print) ==
  [kind |-> kind, compileOut |-> compileOut, compileExit |-> compileExit,
   runOut |-> runOut, runExit |-> runExit, killed |-> killed, cases |-> cases,
   print |-> print, sol |-> "none", returns |-> << >>]

NoProgram == Program("none", << >>, 0, << >>, 0, FALSE, << >>, "none")

\* compileAndRunScript: compile, run only if the compile exited 0, then the
\* sentinel of the deciding phase.  A script killed with its container (the
\* memory ceiling) prints no sentinel.
\* a script that runs the binary whatever the compile did
ScriptLinesAlwaysRun(p) ==
  p.compileOut \o p.runOut \o (IF p.killed THEN << >> ELSE <<Sentinel(p.runExit)>>)

ScriptLines(p) ==
  IF p.compileExit = 0
  THEN p.compileOut \o p.runOut \o (IF p.killed THEN << >> ELSE <<Sentinel(p.runExit)>>)
  ELSE p.compileOut \o <<Sentinel(p.compileExit)>>

\* the log as one text: every printed line ends with a newline
LogOutput(p) ==
  IF ScriptLines(p) = << >> THEN << >> ELSE ScriptLines(p) \o <<Blank>>

\* State.ExitCode of the stopped container: 137 when it was killed, else the
\* status of the script's last command, the echo of the sentinel
ContainerExitCode(p) == IF p.killed THEN 137 ELSE 0

\* lines a self-contained program may print
OwnLines ==
  {Plain, Blank, Err, Warn, ErrSp, Terminate, HeaderStatus(1, "pass"),
   HeaderStatus(1, "mismatch"), Summary(3, 3), Summary(2, 3), Sentinel(0)}

SeqsUpTo(S, n) == UNION {[1..k -> S] : k \in 0..n}

RunExits == {0, 1, 139, 124}

\* the loop body of the full-suite harness for case n (TEST_CASES_SNIPPET)
CaseLines(n, o, print) ==
  (IF print = "none" THEN <<HeaderStatus(n, o)>>
                     ELSE <<HeaderPrint(n, print), StatusOnly(o)>>)
  \o <<InputLine(n), ExpectedLine(n)>>
  \o (IF o \in {"pass", "mismatch"} THEN <<OutputLine(n)>> ELSE << >>)
  \o <<Separator>>

RECURSIVE AllCaseLines(_, _, _)
AllCaseLines(n, cases, print) ==
  IF n > Len(cases) THEN << >>
  ELSE CaseLines(n, cases[n], print) \o AllCaseLines(n + 1, cases, print)

PassedCount(cases) == Cardinality({n \in 1..Len(cases) : cases[n] = "pass"})

\* main() of the full-suite harness, run to completion
HarnessOut(cases, print) ==
  AllCaseLines(1, cases, print)
  \o <<Summary(PassedCount(cases), Len(cases))>>
  \o (IF PassedCount(cases) = Len(cases) THEN <<AllPassed>> ELSE <<SomeFailed>>)

\* a harness that exits 0 whatever the cases did
HarnessExitZero(cases) == 0

HarnessExit(cases) == IF PassedCount(cases) = Len(cases) THEN 0 ELSE 1

\* generateSingleTestHarness: an index outside the table falls back to case 0
EmbeddedCase(testIndex) ==
  IF testIndex >= 0 /\ testIndex < NumCases THEN testIndex ELSE 0

\* main() of the single-test harness around a call that returns result
SingleOut(testIndex, print, result) ==
  <<ConsoleStart>>
  \o (IF print = "none" THEN << >> ELSE <<PrintLine(print)>>)
  \o <<ConsoleEnd, ReturnValue(result)>>

SingleProgram(w, testIndex, print, sol) ==
  LET result == SolutionReturn(sol, TestCases[EmbeddedCase(testIndex) + 1])
  IN  [Program("single", w, 0, SingleOut(testIndex, print, result), 0, FALSE,
               << >>, print)
       EXCEPT !.sol = sol, !.returns = result]

CaseOutcomes == {"pass", "mismatch", "throw", "throwWarn"}
Prints == {"none", "errsp", "forge"}

CompileFailures(hasMain) ==
  IF hasMain THEN {<<Err, SrcLine, Caret>>, <<UndefRef, Collect2>>,
                   <<FatalErr, SrcLine, Caret, Terminated>>}
             ELSE {<<InclFrom, ErrHpp, SrcLine, Caret>>}

CompileWarnings(hasMain) ==
  IF hasMain THEN {<< >>, <<Warn, SrcLine, Caret>>}
             ELSE {<< >>, <<InclFrom, WarnHpp, SrcLine, Caret>>}

\* everything the script can do for a prepared request
Programs(hasMain, testIndex) ==
  {Program("failed", c, 1, << >>, 0, FALSE, << >>, "none") : c \in CompileFailures(hasMain)}
  \union
  {Program("killed", << >>, 0, o, 0, TRUE, << >>, "none") : o \in {<< >>, <<Plain>>}}
  \union
  (IF hasMain
   THEN {Program("main", w, 0, o, x, FALSE, << >>, "none") :
           w \in CompileWarnings(TRUE), o \in SeqsUpTo(OwnLines, MaxLines), x \in RunExits}
   ELSE IF testIndex < 0
   THEN {Program("suite", w, 0, HarnessOut(cs, p), HarnessExit(cs), FALSE, cs, p) :
           w \in CompileWarnings(FALSE), cs \in [1..NumCases -> CaseOutcomes], p \in Prints}
        \union
        {Program("crash", << >>, 0, o, 139, FALSE, << >>, "none") : o \in {<< >>, <<Segv>>}}
        \union
        {Program("hang", << >>, 0, << >>, 124, FALSE, << >>, "none")}
   ELSE {SingleProgram(w, testIndex, p, sol) :
           w \in CompileWarnings(FALSE), p \in Prints, sol \in Solutions}
        \union
        {Program("uncaught", << >>, 0, <<ConsoleStart, Terminate, WhatLine>>, 134,
                 FALSE, << >>, "none")})

(***************************************************************************)
(* Completions, requests and failures                                      *)
(***************************************************************************)
NoResult == ExecutionResult(<< >>, << >>, Undefined, -1)

Completion(kind, r, m) == [kind |-> kind, r |-> r, m |-> m]
NoCompletion == Completion("none", NoResult, "")
Return(r)    == Completion("return", r, "")
Throw(m)     == Completion("throw", NoResult, m)

\* a catch block that lets the failure escape
CaughtRethrows(m) == Throw(m)

\* executeCode's catch block: every failure becomes a returned result
Caught(m) == Return(CatchResult(m))

\* a kill whose own failure replaces the rejection of the race
AfterKillPropagates(m, killed) ==
  IF killed THEN m ELSE "(HTTP code 409) container is not running"

\* the catch around container.kill(): the kill's own failure is dropped and the
\* rejection that ended the race is rethrown
AfterKill(m, killed) == m

\* a finally block that lets a removal failure escape
AfterTeardownThrows(c, status) ==
  IF status \in {404, 409} THEN c ELSE Throw("(HTTP code 500) server error")

\* the catch inside finally: the failure is at most logged
AfterTeardown(c, status) == c

TeardownLogs(status) == status # 409 /\ status # 404

Request(valid, sizeOk, hasMain, testIndex) ==
  [valid |-> valid, sizeOk |-> sizeOk, hasMain |-> hasMain, testIndex |-> testIndex]

\* testIndex -1 stands for an absent testIndex
ClassifyRequests ==
  {Request(TRUE, s, m, -1) : s \in BOOLEAN, m \in BOOLEAN}

ExecuteRequests ==
  {Request(FALSE, TRUE, FALSE, -1), Request(TRUE, FALSE, FALSE, -1)}
  \union {Request(TRUE, TRUE, TRUE, -1)}
  \union {Request(TRUE, TRUE, FALSE, i) : i \in -1..NumCases}

FsErrors == {"ENOSPC: no space left on device"}

DaemonErrors ==
  {"connect ECONNREFUSED /var/run/docker.sock", "net/http: TLS handshake timeout"}

NoSuchContainer == "(HTTP code 404) no such container"

Kinds ==
  {"image", "create", "start", "wait", "kill", "logs", "inspectExit", "inspect",
   "remove"}
Called(k) == [calls EXCEPT ![k] = @ + 1]

Pending == [kind |-> "pending"]
Response(status, result) == [kind |-> "response", status |-> status, result |-> result]
Resolved(t) == [kind |-> "resolved", t |-> t]
Rejected(m) == [kind |-> "rejected", m |-> m]

\* a caller that lets the exception escape
CallerCatchRethrows(e, m) == Rejected(m)

\* the caller's catch block
CallerCatch(e, m) ==
  IF e = "classify" THEN Resolved(ClassifyCatch(m)) ELSE Response(500, NoResult)

\* the caller's use of the ExecutionResult
CallerResult(e, r) ==
  IF e = "classify" THEN Resolved(ClassifyResult(r)) ELSE Response(200, r)

\* a cleanup whose failure reaches the caller
AfterCleanupPropagates(o, ok) ==
  IF ok THEN o ELSE Rejected("EBUSY: resource busy or locked, rmdir")

\* cleanupTempDir: a failed removal is logged and swallowed
AfterCleanup(o, ok) == o

\* the value of a function applied on its own
Unreturned == [done |-> FALSE]
Returned(v) == [done |-> TRUE, v |-> v]

(***************************************************************************)
(* Initial state                                                           *)
(***************************************************************************)
(***************************************************************************)
(* Requests side by side: what they share is the disk and the runtime      *)
(***************************************************************************)
NumRequests == 2

Reqs         == 1..NumRequests
DirNames     == 1..NumRequests
ContainerIds == 1..NumRequests

\* the local variables of one request: its position, the tempDir of the
\* caller, the container of executeCode
RequestState(at, dir, cont) == [pc |-> at, tempDir |-> dir, container |-> cont]

\* a directory under TEMP_DIR: mainCpp is the request whose code main.cpp
\* holds (0: no file), touched the requests that created, wrote or removed it
Directory(exists, mainCpp, touched) ==
  [exists |-> exists, mainCpp |-> mainCpp, touched |-> touched]

\* a container: read is whose code it compiled (-1: not yet, 0: no file),
\* touched the requests that created, started, killed or removed it
Container(state, bind, read, touched) ==
  [state |-> state, bind |-> bind, read |-> read, touched |-> touched]

NoDirectories == [d \in DirNames |-> Directory(FALSE, 0, {})]
NoContainers  == [c \in ContainerIds |-> Container("none", 0, -1, {})]

\* no request runs side by side with the one followed
Quiet ==
  /\ requests = [r \in Reqs |-> RequestState("idle", 0, 0)]
  /\ temp = NoDirectories
  /\ daemon = NoContainers

Init ==
  /\ Quiet
  /\ entry \in {"classify", "execute"}
  /\ src \in (IF entry = "classify" THEN ClassifyRequests ELSE ExecuteRequests)
  /\ pc = (IF entry = "classify" THEN "createTempDir" ELSE "validate")
  /\ tempDir = "null"
  /\ wsExists = FALSE
  /\ cleanupCalls = 0
  /\ caught = "none"
  /\ container = "null"
  /\ cState = "none"
  /\ stalls = FALSE
  /\ prog = NoProgram
  /\ calls = [k \in Kinds |-> 0]
  /\ pend = NoCompletion
  /\ ret = NoCompletion
  /\ rejected = "none"
  /\ hist = {}
  /\ logged = {}
  /\ outcome = Pending
  /\ fn = "none"
  /\ arg = << >>
  /\ val = Unreturned

callerVars == <<tempDir, wsExists, cleanupCalls, caught, outcome>>
dockerVars == <<container, cState, stalls, prog, calls, pend, ret, rejected, hist>>

(***************************************************************************)
(* The callers: POST /execute and classifyTestResults                      *)
(***************************************************************************)
\* POST /execute up to createTempDir: body validation, then validateCodeSize
Validate ==
  /\ pc = "validate"
  /\ IF ~src.valid \/ ~src.sizeOk
     THEN /\ outcome' = Response(400, NoResult)
          /\ pc' = "cleanup"
     ELSE /\ outcome' = outcome
          /\ pc' = "createTempDir"
  /\ UNCHANGED <<entry, src, tempDir, wsExists, cleanupCalls, caught, logged>>
  /\ UNCHANGED dockerVars
  /\ UNCHANGED auxVars

CreateTempDir ==
  /\ pc = "createTempDir"
  /\ \/ /\ tempDir' = "dir"
        /\ wsExists' = TRUE
        /\ pc' = "prepare"
        /\ UNCHANGED <<caught, outcome>>
     \/ \E m \in FsErrors :
        /\ caught' = m
        /\ outcome' = CallerCatch(entry, m)
        /\ pc' = "cleanup"
        /\ UNCHANGED <<tempDir, wsExists>>
  /\ UNCHANGED <<entry, src, cleanupCalls, logged>>
  /\ UNCHANGED dockerVars
  /\ UNCHANGED auxVars

\* prepareCodeForExecution: the writes either all succeed or one of them throws
Prepare ==
  /\ pc = "prepare"
  /\ \/ /\ pc' = "ensureImage"
        /\ UNCHANGED <<caught, outcome>>
     \/ \E m \in FsErrors :
        /\ caught' = m
        /\ outcome' = CallerCatch(entry, m)
        /\ pc' = "cleanup"
  /\ UNCHANGED <<entry, src, tempDir, wsExists, cleanupCalls, logged>>
  /\ UNCHANGED dockerVars
  /\ UNCHANGED auxVars

\* the caller after executeCode completed
Respond ==
  /\ pc = "respond"
  /\ IF ret.kind = "throw"
     THEN /\ caught' = ret.m
          /\ outcome' = CallerCatch(entry, ret.m)
     ELSE /\ caught' = caught
          /\ outcome' = CallerResult(entry, ret.r)
  /\ pc' = "cleanup"
  /\ UNCHANGED <<entry, src, tempDir, wsExists, cleanupCalls, logged>>
  /\ UNCHANGED dockerVars
  /\ UNCHANGED auxVars

\* the caller's finally block
Cleanup ==
  /\ pc = "cleanup"
  /\ IF tempDir = "null"
     THEN UNCHANGED <<wsExists, cleanupCalls, logged, outcome>>
     ELSE \E ok \in BOOLEAN :
            /\ cleanupCalls' = cleanupCalls + 1
            /\ wsExists' = ~ok
            /\ logged' = IF ok THEN logged ELSE logged \union {"cleanup"}
            /\ outcome' = AfterCleanup(outcome, ok)
  /\ pc' = "done"
  /\ UNCHANGED <<entry, src, tempDir, caught>>
  /\ UNCHANGED dockerVars
  /\ UNCHANGED auxVars

(***************************************************************************)
(* executeCode                                                             *)
(***************************************************************************)
inExecute ==
  pc \in {"ensureImage", "createContainer", "start", "wait", "kill", "logs",
          "inspectExit", "finally", "remove"}

\* ensureImage: the image is present or gets pulled, or the pull fails
EnsureImage ==
  /\ pc = "ensureImage"
  /\ calls' = Called("image")
  /\ \/ /\ pc' = "createContainer"
        /\ UNCHANGED <<pend, hist>>
     \/ \E m \in DaemonErrors :
        /\ pend' = Caught(m)
        /\ hist' = hist \union {"image:fail"}
        /\ pc' = "finally"
  /\ UNCHANGED <<entry, src, logged, container, cState, stalls, prog, ret, rejected>>
  /\ UNCHANGED callerVars
  /\ UNCHANGED auxVars

CreateContainer ==
  /\ pc = "createContainer"
  /\ calls' = Called("create")
  /\ \/ /\ container' = "set"
        /\ cState' = "created"
        /\ pc' = "start"
        /\ UNCHANGED <<pend, hist>>
     \/ \E m \in DaemonErrors :
        /\ pend' = Caught(m)
        /\ hist' = hist \union {"create:fail"}
        /\ pc' = "finally"
        /\ UNCHANGED <<container, cState>>
  /\ UNCHANGED <<entry, src, logged, stalls, prog, ret, rejected>>
  /\ UNCHANGED callerVars
  /\ UNCHANGED auxVars

\* container.start(), then container.wait() is issued and the timer is armed
StartContainer ==
  /\ pc = "start"
  /\ \/ /\ calls' = [calls EXCEPT !["start"] = @ + 1, !["wait"] = @ + 1]
        /\ cState' = "running"
        /\ stalls' \in BOOLEAN
        /\ pc' = "wait"
        /\ UNCHANGED <<pend, hist>>
     \/ \E m \in DaemonErrors :
        /\ calls' = Called("start")
        /\ pend' = Caught(m)
        /\ hist' = hist \union {"start:fail"}
        /\ pc' = "finally"
        /\ UNCHANGED <<cState, stalls>>
  /\ UNCHANGED <<entry, src, logged, container, prog, ret, rejected>>
  /\ UNCHANGED callerVars
  /\ UNCHANGED auxVars

\* the script ends and the container stops
ContainerExits ==
  /\ inExecute
  /\ cState = "running"
  /\ ~stalls
  /\ cState' = "exited"
  /\ UNCHANGED <<entry, src, pc, logged, container, stalls, prog, calls, pend, ret,
                 rejected, hist>>
  /\ UNCHANGED callerVars
  /\ UNCHANGED auxVars

\* AutoRemove: the runtime removes a stopped container by itself
AutoRemoveBegins ==
  /\ inExecute
  /\ cState = "exited"
  /\ cState' = "removing"
  /\ UNCHANGED <<entry, src, pc, logged, container, stalls, prog, calls, pend, ret,
                 rejected, hist>>
  /\ UNCHANGED callerVars
  /\ UNCHANGED auxVars

AutoRemoveEnds ==
  /\ inExecute
  /\ cState = "removing"
  /\ cState' = "removed"
  /\ UNCHANGED <<entry, src, pc, logged, container, stalls, prog, calls, pend, ret,
                 rejected, hist>>
  /\ UNCHANGED callerVars
  /\ UNCHANGED auxVars

\* Promise.race: the wait resolves first
WaitResolves ==
  /\ pc = "wait"
  /\ cState \in {"exited", "removing", "removed"}
  /\ pc' = "logs"
  /\ UNCHANGED <<entry, src, logged>>
  /\ UNCHANGED dockerVars
  /\ UNCHANGED callerVars
  /\ UNCHANGED auxVars

\* a timer that never goes off
TimeoutNeverFires ==
  /\ pc = "wait"
  /\ FALSE
  /\ UNCHANGED vars

\* Promise.race: the timer rejects first
TimeoutFires ==
  /\ pc = "wait"
  /\ rejected' = "Execution timeout"
  /\ hist' = hist \union {"timeout"}
  /\ pc' = "kill"
  /\ UNCHANGED <<entry, src, logged, container, cState, stalls, prog, calls, pend, ret>>
  /\ UNCHANGED callerVars
  /\ UNCHANGED auxVars

\* Promise.race: the wait itself rejects
WaitRejects ==
  /\ pc = "wait"
  /\ \E m \in DaemonErrors \union {NoSuchContainer} :
       /\ m = NoSuchContainer => cState = "removed"
       /\ rejected' = m
  /\ hist' = hist \union {"wait:fail"}
  /\ pc' = "kill"
  /\ UNCHANGED <<entry, src, logged, container, cState, stalls, prog, calls, pend, ret>>
  /\ UNCHANGED callerVars
  /\ UNCHANGED auxVars

\* container.kill() in the catch of the race, then the rethrow into
\* executeCode's catch block
\* a kill after which the logs are fetched all the same
KillContainerThenLogs ==
  /\ pc = "kill"
  /\ calls' = Called("kill")
  /\ \/ /\ cState = "running"
        /\ cState' = "exited"
        /\ pend' = Caught(AfterKill(rejected, TRUE))
        /\ hist' = hist
     \/ /\ cState' = cState
        /\ pend' = Caught(AfterKill(rejected, FALSE))
        /\ hist' = hist \union {"kill:fail"}
  /\ pc' = "logs"
  /\ UNCHANGED <<entry, src, logged, container, stalls, prog, ret, rejected>>
  /\ UNCHANGED callerVars
  /\ UNCHANGED auxVars

\* a kill that is issued again after it failed
KillContainerRetries ==
  /\ pc = "kill"
  /\ calls' = Called("kill")
  /\ \/ /\ cState = "running"
        /\ cState' = "exited"
        /\ pend' = Caught(AfterKill(rejected, TRUE))
        /\ hist' = hist
        /\ pc' = "finally"
     \/ /\ cState' = cState
        /\ pend' = Caught(AfterKill(rejected, FALSE))
        /\ hist' = hist \union {"kill:fail"}
        /\ pc' = IF calls["kill"] = 0 THEN "kill" ELSE "finally"
  /\ UNCHANGED <<entry, src, logged, container, stalls, prog, ret, rejected>>
  /\ UNCHANGED callerVars
  /\ UNCHANGED auxVars

KillContainer ==
  /\ pc = "kill"
  /\ calls' = Called("kill")
  /\ \/ /\ cState = "running"
        /\ cState' = "exited"
        /\ pend' = Caught(AfterKill(rejected, TRUE))
        /\ hist' = hist
     \/ /\ cState' = cState
        /\ pend' = Caught(AfterKill(rejected, FALSE))
        /\ hist' = hist \union {"kill:fail"}
  /\ pc' = "finally"
  /\ UNCHANGED <<entry, src, logged, container, stalls, prog, ret, rejected>>
  /\ UNCHANGED callerVars
  /\ UNCHANGED auxVars

\* container.logs() and, when the sentinel is in the log, the whole result
FetchLogs ==
  /\ pc = "logs"
  /\ calls' = Called("logs")
  /\ \/ \E m \in DaemonErrors \union {NoSuchContainer} :
        /\ m = NoSuchContainer => cState = "removed"
        /\ pend' = Caught(m)
        /\ hist' = hist \union {"logs:fail"}
        /\ pc' = "finally"
        /\ prog' = prog
     \/ /\ cState \in {"exited", "removing"}
        /\ \E p \in Programs(src.hasMain, src.testIndex) :
             /\ prog' = p
             /\ LET log == LogOutput(p)
                    i   == SentinelIndex(log)
                IN  IF i # 0
                    THEN /\ pend' = Return(BuildResult(log, log[i].sent))
                         /\ pc' = "finally"
                    ELSE /\ pend' = pend
                         /\ pc' = "inspectExit"
        /\ hist' = hist
  /\ UNCHANGED <<entry, src, logged, container, cState, stalls, ret, rejected>>
  /\ UNCHANGED callerVars
  /\ UNCHANGED auxVars

\* no sentinel in the log: inspect.State.ExitCode || 0
InspectExit ==
  /\ pc = "inspectExit"
  /\ calls' = Called("inspectExit")
  /\ IF cState = "removed"
     THEN /\ pend' = Caught(NoSuchContainer)
          /\ hist' = hist \union {"inspectExit:fail"}
     ELSE /\ pend' = Return(BuildResult(LogOutput(prog), ContainerExitCode(prog)))
          /\ hist' = hist
  /\ pc' = "finally"
  /\ UNCHANGED <<entry, src, logged, container, cState, stalls, prog, ret, rejected>>
  /\ UNCHANGED callerVars
  /\ UNCHANGED auxVars

\* finally without a container: nothing to tear down
TeardownSkip ==
  /\ pc = "finally"
  /\ container = "null"
  /\ ret' = pend
  /\ pc' = "respond"
  /\ UNCHANGED <<entry, src, logged, container, cState, stalls, prog, calls, pend,
                 rejected, hist>>
  /\ UNCHANGED callerVars
  /\ UNCHANGED auxVars

\* finally: container.inspect(); a container that is there and not being
\* removed goes on to container.remove()
TeardownInspect ==
  /\ pc = "finally"
  /\ container = "set"
  /\ calls' = Called("inspect")
  /\ \/ /\ cState = "removed"
        /\ ret' = AfterTeardown(pend, 404)
        /\ hist' = hist \union {"td:404"}
        /\ pc' = "respond"
        /\ logged' = logged
     \/ /\ cState = "removing"
        /\ ret' = pend
        /\ hist' = hist \union {"td:removing"}
        /\ pc' = "respond"
        /\ logged' = logged
     \/ /\ cState \in {"created", "running", "exited"}
        /\ ret' = ret
        /\ hist' = hist \union {"td:present"}
        /\ pc' = "remove"
        /\ logged' = logged
     \/ /\ ret' = AfterTeardown(pend, 500)
        /\ hist' = hist \union {"td:500"}
        /\ pc' = "respond"
        /\ logged' = logged \union {"teardown"}
  /\ UNCHANGED <<entry, src, container, cState, stalls, prog, pend, rejected>>
  /\ UNCHANGED callerVars
  /\ UNCHANGED auxVars

\* finally: container.remove({force: true})
TeardownRemove ==
  /\ pc = "remove"
  /\ calls' = Called("remove")
  /\ \E status \in {200, 404, 409, 500} :
       /\ status = 200 => cState \in {"created", "running", "exited"}
       /\ status = 404 => cState = "removed"
       /\ status = 409 => cState = "removing"
       /\ cState' = IF status = 200 THEN "removed" ELSE cState
       /\ ret' = IF status = 200 THEN pend ELSE AfterTeardown(pend, status)
       /\ hist' = IF status = 200 THEN hist
                  ELSE hist \union {"td:" \o ToString(status)}
       /\ logged' = IF status # 200 /\ TeardownLogs(status)
                    THEN logged \union {"teardown"} ELSE logged
  /\ pc' = "respond"
  /\ UNCHANGED <<entry, src, container, stalls, prog, pend, rejected>>
  /\ UNCHANGED callerVars
  /\ UNCHANGED auxVars

Next ==
  \/ Validate
  \/ CreateTempDir
  \/ Prepare
  \/ EnsureImage
  \/ CreateContainer
  \/ StartContainer
  \/ ContainerExits
  \/ AutoRemoveBegins
  \/ AutoRemoveEnds
  \/ WaitResolves
  \/ TimeoutFires
  \/ WaitRejects
  \/ KillContainer
  \/ FetchLogs
  \/ InspectExit
  \/ TeardownSkip
  \/ TeardownInspect
  \/ TeardownRemove
  \/ Respond
  \/ Cleanup

Spec == Init /\ [][Next]_vars

\* the steps of executeCode that do not depend on the program ending: the
\* Docker calls other than wait, and the timer armed beside the wait
ExecuteStep ==
  \/ EnsureImage
  \/ CreateContainer
  \/ StartContainer
  \/ TimeoutFires
  \/ KillContainer
  \/ FetchLogs
  \/ InspectExit
  \/ TeardownSkip
  \/ TeardownInspect
  \/ TeardownRemove

\* every Docker API call other than wait is answered, and the timer goes off
\* unless the race is over before (at most one of the steps is enabled at a
\* time, the position in executeCode deciding which)
Responsive == WF_vars(ExecuteStep)

\* one single-test request through POST /execute: what executeCode does next
\* never depends on the request
InitLive ==
  /\ Init
  /\ entry = "execute"
  /\ src = Request(TRUE, TRUE, FALSE, 0)

SpecLive == InitLive /\ [][Next]_vars /\ Responsive

(***************************************************************************)
(* Functions applied on their own                                          *)
(***************************************************************************)
\* longest source text, in characters
MaxChars == 3

\* largest size limit passed to validateCodeSize
MaxSize == 4

\* longest error text passed to parseCompilerError, in lines
MaxParseLines == 2

\* characters of a source text: ASCII, two-, three- and four-byte code points
\* and a lone surrogate (encoded as the three bytes of U+FFFD)
Chars == {"a", "e-acute", "euro", "emoji", "lone-surrogate"}

Utf8Bytes(c) ==
  CASE c = "a" -> 1
    [] c = "e-acute" -> 2
    [] c = "euro" -> 3
    [] c = "emoji" -> 4
    [] c = "lone-surrogate" -> 3

\* Buffer.byteLength(code, 'utf-8')
RECURSIVE ByteLength(_)
ByteLength(code) ==
  IF code = << >> THEN 0 ELSE Utf8Bytes(Head(code)) + ByteLength(Tail(code))

SizeError(codeSize, maxSize) ==
  "Code size (" \o ToString(codeSize) \o " bytes) exceeds maximum allowed size ("
    \o ToString(maxSize) \o " bytes)"

\* a check that also refuses a code of exactly maxSize bytes
validateCodeSizeStrict(code, maxSize) ==
  IF ByteLength(code) >= maxSize
  THEN SizeError(ByteLength(code), maxSize)
  ELSE "void"

\* validateCodeSize: returns nothing ("void") or throws the size error
validateCodeSize(code, maxSize) ==
  IF ByteLength(code) > maxSize
  THEN SizeError(ByteLength(code), maxSize)
  ELSE "void"

\* diagnostics of every shape, and the other lines of an error text
ParseInputLines ==
  {Diag(p, st, e, 5, c, ls[1], ls[2], "expected ';' before '}'") :
     p \in {"", "3"}, st \in {"main", "sub/util"}, e \in {"cpp", "hpp"},
     c \in {-1, 10},
     ls \in {<<"", "error">>, <<"", "warning">>, <<"", "note">>, <<"fatal ", "error">>}}
  \union
  {Diag("", "main", "cpp", 7, -1, "", "error", "undefined reference to `foo()'"),
   Diag("", "two_sum", "cpp", 12, 3, "", "warning",
        "unused variable 'x' [-Wunused-variable]"),
   UndefRef, Collect2, Blank, SrcLine, Caret, Plain}

\* source texts: a body with white space before and after it
Bodies ==
  {"", "class Solution { ... };", "int main() { ... }",
   "class Solution { ... }; // int main() is provided", "auto main() -> int { ... }"}

Paddings == {"", "\n  "}

UserCode(pre, body, post) == [pre |-> pre, body |-> body, post |-> post]

UserCodes == {UserCode(a, b, c) : a \in Paddings, b \in Bodies, c \in Paddings}

\* the text itself, and String.prototype.trim on it
TextOf(userCode) == userCode.pre \o userCode.body \o userCode.post
TrimOf(userCode) == userCode.body

\* /\bint\s+main\s*\(/ tested on the text: the words "int main(" anywhere
MAIN_DETECTION_REGEX(userCode) ==
  userCode.body \in {"int main() { ... }",
                     "class Solution { ... }; // int main() is provided"}

\* whether the text, as C++, defines the program entry point
DefinesEntryPoint(userCode) ==
  userCode.body \in {"int main() { ... }", "auto main() -> int { ... }"}

\* the harness source handed out for a testIndex (-1: none given)
HarnessCode(testIndex) ==
  IF testIndex # -1
  THEN "generateSingleTestHarness(" \o ToString(EmbeddedCase(testIndex)) \o ")"
  ELSE "TEST_CASES_SNIPPET"

Written(content) == [written |-> TRUE, content |-> content]
NotWritten == [written |-> FALSE, content |-> ""]

PreparedCodeResult(mainCpp, solutionHpp, usedHarness) ==
  [mainCpp |-> mainCpp, solutionHpp |-> solutionHpp, usedHarness |-> usedHarness]

\* prepareCodeForExecution: the files written to the workspace and usedHarness
prepareCodeForExecution(userCode, testIndex) ==
  IF MAIN_DETECTION_REGEX(userCode)
  THEN PreparedCodeResult(Written(TextOf(userCode)), NotWritten, FALSE)
  ELSE LET trimmedUserCode ==
             IF TrimOf(userCode) # "" THEN TrimOf(userCode) \o "\n" ELSE ""
       IN  PreparedCodeResult(Written(HarnessCode(testIndex) \o "\n"),
                              Written(trimmedUserCode), TRUE)

\* no request is running
Idle ==
  /\ entry = "none"
  /\ src = Request(FALSE, FALSE, FALSE, -1)
  /\ pc = "done"
  /\ tempDir = "null"
  /\ wsExists = FALSE
  /\ cleanupCalls = 0
  /\ caught = "none"
  /\ container = "null"
  /\ cState = "none"
  /\ stalls = FALSE
  /\ prog = NoProgram
  /\ calls = [k \in Kinds |-> 0]
  /\ pend = NoCompletion
  /\ ret = NoCompletion
  /\ rejected = "none"
  /\ hist = {}
  /\ logged = {}
  /\ outcome = Pending

\* messages of compiler and linker diagnostics
Messages ==
  {"expected ';' before '}' token", "'x' was not declared in this scope",
   "undefined reference to `foo()'", "Undefined Reference to `bar'",
   "cannot convert 'int' to 'std::string' after promotion",
   "invalid conversion from 'int' to 'int*'", "foo.h: No such file or directory",
   "ld returned 1 exit status", "linker command failed with exit code 1",
   "stray '@' in program"}

\* lines of a cleaned log: diagnostics, their context lines, program output
MaxSplitLines == 3

SplitInputLines == {Err, ErrHpp, Warn, WarnHpp, SrcLine, Caret, Blank, Plain}

InitFunctions ==
  /\ Idle
  /\ Quiet
  /\ fn \in {"validateCodeSize", "parseCompilerError", "prepareCodeForExecution",
            "categorizeErrorType", "splitOutput"}
  /\ arg \in (CASE fn = "validateCodeSize" ->
                    {[code |-> c, maxSize |-> m] :
                       c \in SeqsUpTo(Chars, MaxChars), m \in 0..MaxSize}
                [] fn = "parseCompilerError" ->
                    SeqsUpTo(ParseInputLines, MaxParseLines)
                [] fn = "prepareCodeForExecution" ->
                    {[userCode |-> u, testIndex |-> i] :
                       u \in UserCodes, i \in -1..NumCases}
                [] fn = "categorizeErrorType" -> Messages
                [] fn = "splitOutput" -> SeqsUpTo(SplitInputLines, MaxSplitLines))
  /\ val = Unreturned

CallValidateCodeSize ==
  /\ fn = "validateCodeSize"
  /\ ~val.done
  /\ val' = Returned(validateCodeSize(arg.code, arg.maxSize))
  /\ UNCHANGED <<fn, arg>>
  /\ UNCHANGED <<reqVars, conVars>>

CallParseCompilerError ==
  /\ fn = "parseCompilerError"
  /\ ~val.done
  /\ val' = Returned(parseCompilerError(arg))
  /\ UNCHANGED <<fn, arg>>
  /\ UNCHANGED <<reqVars, conVars>>

CallPrepareCodeForExecution ==
  /\ fn = "prepareCodeForExecution"
  /\ ~val.done
  /\ val' = Returned(prepareCodeForExecution(arg.userCode, arg.testIndex))
  /\ UNCHANGED <<fn, arg>>
  /\ UNCHANGED <<reqVars, conVars>>

CallCategorizeErrorType ==
  /\ fn = "categorizeErrorType"
  /\ ~val.done
  /\ val' = Returned(categorizeErrorType(arg))
  /\ UNCHANGED <<fn, arg>>
  /\ UNCHANGED <<reqVars, conVars>>

\* the loop of executeCode that sorts the lines of the cleaned text
CallSplitOutput ==
  /\ fn = "splitOutput"
  /\ ~val.done
  /\ val' = Returned(SplitOutput(arg))
  /\ UNCHANGED <<fn, arg>>
  /\ UNCHANGED <<reqVars, conVars>>

NextFunctions ==
  \/ CallSplitOutput
  \/ CallCategorizeErrorType
  \/ CallValidateCodeSize
  \/ CallParseCompilerError
  \/ CallPrepareCodeForExecution

SpecFunctions == InitFunctions /\ [][NextFunctions]_vars

(***************************************************************************)
(* Requests side by side                                                   *)
(***************************************************************************)
\* a name taken by every request
uuidv4Fixed(issued) == {1}

\* uuidv4: a name no earlier call returned
uuidv4(issued) == DirNames \ issued

IssuedNames == {d \in DirNames : temp[d].touched # {}}

\* the id the runtime gives a new container
NewContainerIds == {c \in ContainerIds : daemon[c].state = "none"}

InitConcurrent ==
  /\ Idle
  /\ fn = "none"
  /\ arg = << >>
  /\ val = Unreturned
  /\ requests = [r \in Reqs |-> RequestState("createTempDir", 0, 0)]
  /\ temp = NoDirectories
  /\ daemon = NoContainers

At(r, at) == requests[r].pc = at

Goto(r, at) == [requests EXCEPT ![r].pc = at]

\* createTempDir: mkdir -p TEMP_DIR/<uuid>
ReqCreateTempDir(r) ==
  /\ At(r, "createTempDir")
  /\ \E d \in uuidv4(IssuedNames) :
       /\ temp' = [temp EXCEPT ![d].exists = TRUE, ![d].touched = @ \union {r}]
       /\ requests' = [requests EXCEPT ![r] = RequestState("prepare", d, 0)]
  /\ UNCHANGED daemon

\* prepareCodeForExecution writes main.cpp into tempDir; a missing directory
\* makes writeFile throw and the caller goes to its finally
ReqPrepare(r) ==
  /\ At(r, "prepare")
  /\ LET d == requests[r].tempDir
     IN  IF temp[d].exists
         THEN /\ temp' = [temp EXCEPT ![d].mainCpp = r, ![d].touched = @ \union {r}]
              /\ requests' = Goto(r, "createContainer")
         ELSE /\ temp' = temp
              /\ requests' = Goto(r, "cleanup")
  /\ UNCHANGED daemon

\* createContainer(hostDir): binds tempDir read-only at /workspace
ReqCreateContainer(r) ==
  /\ At(r, "createContainer")
  /\ \E c \in NewContainerIds :
       /\ daemon' = [daemon EXCEPT ![c] =
                       Container("created", requests[r].tempDir, -1, {r})]
       /\ requests' = [requests EXCEPT ![r].pc = "start", ![r].container = c]
  /\ UNCHANGED temp

\* container.start()
ReqStart(r) ==
  /\ At(r, "start")
  /\ LET c == requests[r].container
     IN  daemon' = [daemon EXCEPT ![c].state = "running",
                                  ![c].touched = @ \union {r}]
  /\ requests' = Goto(r, "wait")
  /\ UNCHANGED temp

\* the script: cd /workspace; g++ main.cpp reads the bound directory
ScriptReads(c) ==
  /\ daemon[c].state = "running"
  /\ daemon[c].read = -1
  /\ LET d == daemon[c].bind
     IN  daemon' = [daemon EXCEPT ![c].read =
                      IF temp[d].exists THEN temp[d].mainCpp ELSE 0]
  /\ UNCHANGED <<requests, temp>>

\* the script ends
ScriptExits(c) ==
  /\ daemon[c].state = "running"
  /\ daemon[c].read # -1
  /\ daemon' = [daemon EXCEPT ![c].state = "exited"]
  /\ UNCHANGED <<requests, temp>>

\* AutoRemove: the runtime removes an exited container
AutoRemoves(c) ==
  /\ daemon[c].state = "exited"
  /\ daemon' = [daemon EXCEPT ![c].state = "removed"]
  /\ UNCHANGED <<requests, temp>>

\* container.wait() wins the race
ReqWaitResolves(r) ==
  /\ At(r, "wait")
  /\ daemon[requests[r].container].state \in {"exited", "removed"}
  /\ requests' = Goto(r, "teardown")
  /\ UNCHANGED <<temp, daemon>>

\* the timeout wins the race: container.kill()
ReqTimeoutKills(r) ==
  /\ At(r, "wait")
  /\ LET c == requests[r].container
     IN  /\ daemon[c].state = "running"
         /\ daemon' = [daemon EXCEPT ![c].state = "exited",
                                      ![c].touched = @ \union {r}]
  /\ requests' = Goto(r, "teardown")
  /\ UNCHANGED temp

\* finally of executeCode: inspect, then remove({force}) what is still there
ReqTeardown(r) ==
  /\ At(r, "teardown")
  /\ LET c == requests[r].container
     IN  IF daemon[c].state = "removed"
         THEN daemon' = daemon
         ELSE daemon' = [daemon EXCEPT ![c].state = "removed",
                                       ![c].touched = @ \union {r}]
  /\ requests' = Goto(r, "cleanup")
  /\ UNCHANGED temp

\* cleanupTempDir(tempDir): rm -rf
ReqCleanup(r) ==
  /\ At(r, "cleanup")
  /\ LET d == requests[r].tempDir
     IN  temp' = [temp EXCEPT ![d] = Directory(FALSE, 0, @.touched \union {r})]
  /\ requests' = Goto(r, "done")
  /\ UNCHANGED daemon

NextConcurrent ==
  /\ UNCHANGED <<reqVars, fnVars>>
  /\ \/ \E r \in Reqs : ReqCreateTempDir(r)
     \/ \E r \in Reqs : ReqPrepare(r)
     \/ \E r \in Reqs : ReqCreateContainer(r)
     \/ \E r \in Reqs : ReqStart(r)
     \/ \E c \in ContainerIds : ScriptReads(c)
     \/ \E c \in ContainerIds : ScriptExits(c)
     \/ \E c \in ContainerIds : AutoRemoves(c)
     \/ \E r \in Reqs : ReqWaitResolves(r)
     \/ \E r \in Reqs : ReqTimeoutKills(r)
     \/ \E r \in Reqs : ReqTeardown(r)
     \/ \E r \in Reqs : ReqCleanup(r)

SpecConcurrent == InitConcurrent /\ [][NextConcurrent]_vars

(***************************************************************************)
(* Properties                                                              *)
(***************************************************************************)
\* executeCode has completed (ret is what its caller sees)
Completed == ret.kind # "none"

\* the daemon could not be reached, or the image could not be pulled
InfraFailure ==
  \/ "image:fail" \in hist
  \/ "create:fail" \in hist
  \/ "start:fail" \in hist

\* classifyTestResults answered from an ExecutionResult
Classified ==
  /\ entry = "classify"
  /\ outcome.kind = "resolved"
  /\ caught = "none"
  /\ ret.kind = "return"

\* the compiler/linker signatures as the claims list them
ClaimSignatures ==
  {"error:", "undefined reference", "collect2:", "ld returned", "cannot find",
   "no such file", "multiple definition"}

HasClaimSignature(t) ==
  /\ ~IsBlankText(t)
  /\ \E s \in ClaimSignatures : Includes(t, s)

HasSummaryLine(t) == \E i \in 1..Len(t) : t[i].sum # << >>

C2_TimeoutResult ==
  (Completed /\ "timeout" \in hist) =>
    /\ calls["kill"] = 1
    /\ ret.kind = "return"
    /\ ret.r.exitCode = 124
    /\ ret.r.output = << >>
    /\ ~IsBlankText(ret.r.errors)

C2_Witness ==
  /\ ret.kind = "return"
  /\ "timeout" \in hist
  /\ "kill:fail" \in hist

\* C3: on every exit path with a container created, the teardown (one inspect,
\* then one remove unless the container is gone or being removed) has been
\* attempted when executeCode returns; 409 and 404 replies are ignored, any
\* other failure is only logged; executeCode does not throw and returns the
\* result determined before the teardown.
C3_Teardown ==
  (Completed /\ container = "set") =>
    /\ calls["inspect"] = 1
    /\ calls["remove"] = (IF "td:present" \in hist THEN 1 ELSE 0)
    /\ ret.kind = "return"
    /\ ret = pend
    /\ "teardown" \in logged <=> "td:500" \in hist

C3_Witness ==
  /\ Completed
  /\ "start:fail" \in hist
  /\ calls["remove"] = 1
  /\ cState = "removed"

\* C4: a workspace that was created is destroyed exactly once, after the run,
\* on every path, and a failed destroy does not fail the caller.
C4_CleanupOnce ==
  /\ cleanupCalls <= 1
  /\ cleanupCalls = 1 => (pc = "done" /\ tempDir = "dir")
  /\ pc = "done" =>
       /\ cleanupCalls = (IF tempDir = "dir" THEN 1 ELSE 0)
       /\ outcome.kind \in {"response", "resolved"}

C4_Witness ==
  /\ pc = "done"
  /\ tempDir = "dir"
  /\ caught # "none"
  /\ "cleanup" \in logged
  /\ cleanupCalls = 1

\* C5: classifyTestResults always resolves; an exception thrown while creating
\* the workspace, preparing or running is answered with SYNTAX_ERROR and the
\* exception message as compilationErrors.
C5_AlwaysResolves ==
  (entry = "classify" /\ pc \in {"cleanup", "done"}) =>
    /\ outcome.kind = "resolved"
    /\ caught # "none" =>
         /\ outcome.t.category = "SYNTAX_ERROR"
         /\ outcome.t.compilationErrors = <<Ln(caught, {})>>

C5_Witness ==
  /\ entry = "classify"
  /\ pc = "done"
  /\ caught # "none"
  /\ outcome.kind = "resolved"

\* C6: a non-blank errors text holding a compiler/linker signature is
\* classified SYNTAX_ERROR whatever the exit code, the crash indicators and
\* the Summary line in the output.
C6_SignatureWins ==
  (Classified /\ HasClaimSignature(ret.r.errors)) =>
    outcome.t.category = "SYNTAX_ERROR"

C6_Witness ==
  /\ Classified
  /\ HasClaimSignature(ret.r.errors)
  /\ \E i \in 1..Len(ret.r.output) : ret.r.output[i].sum = <<3, 3>>
  /\ outcome.t.category = "SYNTAX_ERROR"

\* C7: an exit code of the crash set, with no compiler/linker signature in the
\* errors and no parseable summary, is classified RUNTIME_ERROR.
C7_CrashExit ==
  (/\ Classified
   /\ ret.r.exitCode \in {139, 11, 134, 136}
   /\ ~HasClaimSignature(ret.r.errors)
   /\ ~HasSummaryLine(ret.r.output)) =>
    outcome.t.category = "RUNTIME_ERROR"

C7_Witness ==
  /\ Classified
  /\ ret.r.exitCode = 139
  /\ ret.r.errors = <<NoMsg>>
  /\ outcome.t.category = "RUNTIME_ERROR"

\* a call to the Docker daemon failed during the run
ApiFailures ==
  {"image:fail", "create:fail", "start:fail", "wait:fail", "kill:fail",
   "logs:fail", "inspectExit:fail"}

\* C8 as claimed: NO_ISSUES is answered only if all parsed tests passed
\* (passed = total > 0), or nothing could be parsed and the exit code is 0
\* (stated for the runs in which every call to the daemon succeeded).
C8_NoIssuesOnlyWhenClean ==
  (Classified /\ hist \cap ApiFailures = {} /\ outcome.t.category = "NO_ISSUES") =>
    LET tr == parseTestOutput(ret.r.output)
    IN  \/ tr.passed = tr.total /\ tr.total > 0
        \/ tr.total = 0 /\ tr.failures = << >> /\ ret.r.exitCode = 0

\* C9 as claimed: a full-suite run that compiles and runs to completion with at
\* least one mismatch and no exception is classified WRONG_ANSWER with
\* failures (stated for a solution that prints nothing itself).
C9_MismatchIsWrongAnswer ==
  (/\ Classified
   /\ prog.kind = "suite"
   /\ prog.print = "none"
   /\ \E n \in 1..Len(prog.cases) : prog.cases[n] = "mismatch"
   /\ \A n \in 1..Len(prog.cases) : prog.cases[n] \in {"pass", "mismatch"}) =>
    /\ outcome.t.category = "WRONG_ANSWER"
    /\ Len(outcome.t.testResults.failures) > 0

\* C10 as claimed: a full-suite run in which the solution throws in at least
\* one case, with no compiler/linker signature in the captured text, is
\* classified RUNTIME_ERROR.
C10_ExceptionIsRuntimeError ==
  (/\ Classified
   /\ prog.kind = "suite"
   /\ \E n \in 1..Len(prog.cases) : prog.cases[n] \in {"throw", "throwWarn"}
   /\ \A i \in 1..Len(LogOutput(prog)) :
        \A s \in ClaimSignatures : ~Has(LogOutput(prog)[i], s)) =>
    outcome.t.category = "RUNTIME_ERROR"

\* C11 as claimed: when the compile phase fails with a diagnostic on the
\* submitted code, executeCode returns (does not throw) a result with a
\* non-zero exit code, non-empty errors and at least one ParsedError, and
\* classifyTestResults answers SYNTAX_ERROR.
C11_CompileFailureParsed ==
  (Completed /\ prog.kind = "failed") =>
    /\ ret.kind = "return"
    /\ ret.r.exitCode # 0
    /\ ~IsEmptyText(ret.r.errors)
    /\ Len(ret.r.parsedErrors.list) >= 1
    /\ Classified => outcome.t.category = "SYNTAX_ERROR"

\* C12 as claimed: in every ExecutionResult built from a container's log the
\* exit code is 0 if and only if no line was put in the error section, that
\* is, errors is empty; a compile that only emits warnings included (stated
\* for programs that print no signature and no sentinel themselves).
C12_ExitZeroIffNoErrors ==
  (/\ Completed
   /\ ret.kind = "return"
   /\ prog.kind # "none"
   /\ \A i \in 1..Len(prog.runOut) :
        ~MatchesExecSignature(prog.runOut[i]) /\ prog.runOut[i].sent < 0) =>
    (ret.r.exitCode = 0 <=> IsEmptyText(ret.r.errors))

\* C13 as claimed: for a self-contained program that compiles silently and
\* exits 0, errors is empty and output is the program's stdout with the
\* sentinel stripped (compared after trimming; stated for programs that do
\* not print the sentinel text themselves).
C13_CleanRunOutput ==
  (/\ Completed
   /\ ret.kind = "return"
   /\ prog.kind = "main"
   /\ prog.compileOut = << >>
   /\ prog.runExit = 0
   /\ \A i \in 1..Len(prog.runOut) : prog.runOut[i].sent < 0) =>
    /\ IsEmptyText(ret.r.errors)
    /\ ret.r.output = Trim(prog.runOut)

\* C14: validateCodeSize accepts a code exactly when its UTF-8 encoded length
\* is at most the limit (the limit itself included) and throws the size
\* error when it is one byte or more over; the length is in bytes, not in
\* characters.
C14_SizeBoundary ==
  (fn = "validateCodeSize" /\ val.done) =>
    /\ ByteLength(arg.code) <= arg.maxSize => val.v = "void"
    /\ ByteLength(arg.code) >= arg.maxSize + 1 =>
         val.v = SizeError(ByteLength(arg.code), arg.maxSize)

C14_Witness ==
  /\ fn = "validateCodeSize"
  /\ val.done
  /\ val.v = "void"
  /\ ByteLength(arg.code) = arg.maxSize
  /\ Len(arg.code) < ByteLength(arg.code)

\* C15 as claimed: for a source longer than the configured maximum no
\* container is created, whichever entry point serves the request (the
\* execute route or classifyTestResults): the size check precedes any
\* container creation.
C15_OversizeNeverRuns ==
  ~src.sizeOk => calls["create"] = 0

\* C16 as claimed: for every source prepare decides one of two cases: a
\* source that defines the program entry point is written verbatim to
\* main.cpp with usedHarness false and no solution.hpp; any other source gets
\* usedHarness true, solution.hpp with the trimmed, newline-terminated source
\* (empty for a blank source) and main.cpp with the generated harness.
C16_EntryPointDecides ==
  (fn = "prepareCodeForExecution" /\ val.done) =>
    IF DefinesEntryPoint(arg.userCode)
    THEN /\ ~val.v.usedHarness
         /\ val.v.mainCpp = Written(TextOf(arg.userCode))
         /\ ~val.v.solutionHpp.written
    ELSE /\ val.v.usedHarness
         /\ val.v.solutionHpp =
              Written(IF TrimOf(arg.userCode) = "" THEN ""
                      ELSE TrimOf(arg.userCode) \o "\n")
         /\ val.v.mainCpp = Written(HarnessCode(arg.testIndex) \o "\n")

\* C17 as claimed: a single-test run whose solution returns {0,1} for case 0
\* prints, in order, CONSOLE_START, the solution's prints, CONSOLE_END and
\* RETURN_VALUE:[0,1].
C17_ReturnValueCompact ==
  (prog.kind = "single" /\ src.testIndex = 0 /\ prog.returns = <<0, 1>>) =>
    /\ Head(prog.runOut) = ConsoleStart
    /\ prog.runOut[Len(prog.runOut) - 1] = ConsoleEnd
    /\ prog.runOut[Len(prog.runOut)].id = "RETURN_VALUE:[0,1]"

\* C17 as amended: a single-test run with testIndex i whose solution returns
\* normally embeds case i of the table (case 0 when i is outside the table)
\* and prints, in order, CONSOLE_START, the solution's prints, CONSOLE_END and
\* RETURN_VALUE:<rendered>, the elements being separated by ", ": a solution
\* returning {0,1} for case 0 yields RETURN_VALUE:[0, 1].
C17_SingleHarnessOutput ==
  prog.kind = "single" =>
    LET out == prog.runOut
        n   == Len(out)
    IN  /\ n \in {3, 4}
        /\ out[1] = ConsoleStart
        /\ n = 4 <=> prog.print # "none"
        /\ n = 4 => out[2] = PrintLine(prog.print)
        /\ out[n - 1] = ConsoleEnd
        /\ prog.returns = <<0, 1>> => out[n].id = "RETURN_VALUE:[0, 1]"
        /\ prog.returns = <<1, 2>> => out[n].id = "RETURN_VALUE:[1, 2]"
        /\ prog.returns = << >> => out[n].id = "RETURN_VALUE:[]"
        /\ prog.sol = "correct" =>
             prog.returns = (CASE src.testIndex = 0 -> <<0, 1>>
                               [] src.testIndex = 1 -> <<1, 2>>
                               [] src.testIndex = 2 -> <<0, 1>>
                               [] OTHER -> <<0, 1>>)

C17_Witness ==
  /\ Completed
  /\ prog.kind = "single"
  /\ src.testIndex = 0
  /\ prog.returns = <<0, 1>>
  /\ prog.print # "none"
  /\ prog.runOut[4].id = "RETURN_VALUE:[0, 1]"

\* C18: the full-suite harness runs the 3 table cases in order, a throwing
\* case does not stop the later ones; it prints one header with its status
\* PASSED or FAILED per case, then one Summary line whose passed count is the
\* number of PASSED cases, and exits 0 exactly when passed = total.
C18_SuiteHarness ==
  prog.kind = "suite" =>
    LET out    == prog.runOut
        heads  == SelectSeq(out, LAMBDA l : l.tc > 0)
        sums   == SelectSeq(out, LAMBDA l : l.sum # << >>)
        passed == Cardinality({n \in 1..3 : prog.cases[n] = "pass"})
        word(n) == IF prog.cases[n] = "pass" THEN "PASSED" ELSE "FAILED"
        head(n) == "Test Case " \o ToString(n) \o " - Example " \o ToString(n) \o ": "
    IN  /\ Len(prog.cases) = 3
        /\ Len(heads) = 3
        /\ \A n \in 1..3 : heads[n].tc = n
        /\ \A n \in 1..3 : \E i \in 1..Len(out) :
             /\ out[i].tc = n
             /\ IF prog.print = "none"
                THEN /\ out[i].st = word(n)
                     /\ prog.cases[n] \in {"pass", "mismatch"}
                          => out[i].id = head(n) \o word(n)
                ELSE /\ out[i + 1].tc = 0
                     /\ prog.cases[n] \in {"pass", "mismatch"}
                          => out[i + 1].id = word(n)
                     /\ prog.cases[n] \notin {"pass", "mismatch"}
                          => "failed (exception" \in out[i + 1].f
        /\ Len(sums) = 1
        /\ sums[1].sum = <<passed, 3>>
        /\ out[Len(out) - 1] = sums[1]
        /\ \A i \in 1..Len(out) : out[i].tc > 0 => i < Len(out) - 1
        /\ prog.runExit = 0 <=> passed = 3

C18_Witness ==
  /\ Completed
  /\ ret.kind = "return"
  /\ prog.kind = "suite"
  /\ prog.cases = <<"throw", "pass", "mismatch">>
  /\ prog.print = "none"
  /\ prog.runExit = 1
  /\ \E i \in 1..Len(prog.runOut) : prog.runOut[i].sum = <<1, 3>>

\* C19: whatever the interleaving, requests have different workspace
\* directories and different containers; a directory or a container is only
\* ever created, written, killed or removed by one request; a container
\* compiles the code of the request that created it; and a workspace stays on
\* disk until its own request cleans it up.
C19_RequestsIndependent ==
  /\ \A r1, r2 \in Reqs :
       r1 # r2 =>
         /\ requests[r1].tempDir # 0 => requests[r1].tempDir # requests[r2].tempDir
         /\ requests[r1].container # 0
              => requests[r1].container # requests[r2].container
  /\ \A d \in DirNames : Cardinality(temp[d].touched) <= 1
  /\ \A c \in ContainerIds : Cardinality(daemon[c].touched) <= 1
  /\ \A r \in Reqs :
       /\ requests[r].container # 0 =>
            /\ daemon[requests[r].container].touched = {r}
            /\ daemon[requests[r].container].bind = requests[r].tempDir
            /\ daemon[requests[r].container].read \in {-1, r}
       /\ requests[r].pc \in {"prepare", "createContainer", "start", "wait",
                              "teardown", "cleanup"}
            => temp[requests[r].tempDir].exists
       /\ requests[r].pc \in {"createContainer", "start", "wait", "teardown",
                              "cleanup"}
            => temp[requests[r].tempDir].mainCpp = r

\* two requests in flight at once, one already compiled, the other cleaned up
C19_Witness ==
  /\ requests[1].pc = "done"
  /\ requests[2].pc = "wait"
  /\ daemon[requests[2].container].read = 2
  /\ daemon[requests[1].container].read = 1
  /\ requests[1].tempDir # requests[2].tempDir
  /\ ~temp[requests[1].tempDir].exists
  /\ temp[requests[2].tempDir].exists

\* a line reads [digits]<file>.cpp:<line>[:<col>]: (error|warning): <message>,
\* <file> being a bare file name
ClaimForm(l) ==
  /\ l.diag.stem \in WordStems
  /\ l.diag.msg # ""
  /\ \E digits \in {"", "3", "12"}, sev \in {"error", "warning"} :
       l.id = digits \o l.diag.stem \o ".cpp:" \o ToString(l.diag.line)
                \o (IF l.diag.col >= 0 THEN ":" \o ToString(l.diag.col) ELSE "")
                \o ": " \o sev \o ": " \o l.diag.msg

LinkerSignature(l) ==
  Has(l, "undefined reference") \/ Has(l, "collect2:") \/ Has(l, "ld returned")

\* C20: parseCompilerError yields, in order, one record per line of the claimed
\* form, with file, line, column (absent without one), message taken from the
\* line and type = categorize(message), one linker record per line with a
\* linker signature, and nothing for any other line; the line
\* main.cpp:5:10: error: expected ';' before '}' alone yields the single record
\* {main.cpp, 5, 10, syntax, expected ';' before '}'}.
C20_OneRecordPerDiagnostic ==
  (fn = "parseCompilerError" /\ val.done) =>
    LET lines == SelectSeq(arg, LAMBDA l : ClaimForm(l) \/ LinkerSignature(l))
        recs  == val.v
    IN  /\ Len(recs) = Len(lines)
        /\ \A k \in 1..Len(lines) :
             IF ClaimForm(lines[k])
             THEN /\ recs[k].file = lines[k].diag.stem \o ".cpp"
                  /\ recs[k].line = lines[k].diag.line
                  /\ recs[k].column = lines[k].diag.col
                  /\ recs[k].message = lines[k].diag.msg
                  /\ recs[k].type = categorizeErrorType(lines[k].diag.msg)
             ELSE recs[k].file = "linker" /\ recs[k].type = "linker"
        /\ (Len(arg) = 1 /\ arg[1].id = "main.cpp:5:10: error: expected ';' before '}'")
             => recs = <<[file |-> "main.cpp", line |-> 5, column |-> 10,
                          type |-> "syntax", message |-> "expected ';' before '}'",
                          rawError |-> "main.cpp:5:10: error: expected ';' before '}'"]>>

C20_Witness ==
  /\ fn = "parseCompilerError"
  /\ val.done
  /\ Len(arg) = 2
  /\ arg[1].id = "main.cpp:5:10: error: expected ';' before '}'"
  /\ arg[2].id = "main.hpp:5: note: expected ';' before '}'"
  /\ Len(val.v) = 1
  /\ val.v[1].file = "main.cpp" /\ val.v[1].line = 5 /\ val.v[1].column = 10
  /\ val.v[1].type = "syntax"

\* C21: categorize gives one of the five types; a message containing
\* "undefined reference", "linker" or "ld returned" is linker, and a message
\* with none of the table's keywords is other.
C21_LinkerKeywordsGiveLinker ==
  (fn = "categorizeErrorType" /\ val.done) =>
    /\ val.v \in {"syntax", "undefined", "type", "linker", "other"}
    /\ MsgTags(arg) \cap {"undefined reference", "linker", "ld returned"} # {}
         => val.v = "linker"
    /\ MsgTags(arg) \cap (SyntaxKeywords \union UndefinedKeywords
                            \union TypeKeywords \union LinkerKeywords) = {}
         => val.v = "other"

\* C22: a script that ran to completion printed the compiler's lines, the
\* program's lines only when the compile exited 0, and then exactly one
\* EXIT_CODE:<n> line of its own, the last line, n being the compile status
\* when the compile failed and the run status otherwise (124 when the run was
\* cut off by the script's own time limit).
C22_ScriptSentinel ==
  (prog.kind # "none" /\ ~prog.killed) =>
    LET ls  == ScriptLines(prog)
        own == IF prog.compileExit = 0 THEN prog.runOut ELSE << >>
    IN  /\ ls = prog.compileOut \o own \o <<ls[Len(ls)]>>
        /\ ls[Len(ls)].id = "EXIT_CODE:" \o ToString(IF prog.compileExit # 0
                                                    THEN prog.compileExit
                                                    ELSE prog.runExit)
        /\ ls[Len(ls)].sent = (IF prog.compileExit # 0 THEN prog.compileExit
                                                       ELSE prog.runExit)
        /\ prog.compileExit # 0 =>
             /\ Len(SelectSeq(ls, LAMBDA l : l.sent >= 0)) = 1
             /\ ret.kind = "return" => ret.r.exitCode = prog.compileExit

\* the run phase was cut off by the script's own limit and the script still
\* printed its sentinel
C22_Witness ==
  /\ Completed
  /\ ret.kind = "return"
  /\ prog.kind = "main"
  /\ prog.compileExit = 0
  /\ prog.runExit = 124
  /\ prog.runOut = <<Plain>>
  /\ ScriptLines(prog)[2].id = "EXIT_CODE:124"
  /\ "timeout" \notin hist

\* C23: whatever the program printed, exitCode is the <n> of the sentinel the
\* script printed last, and the text that is split is everything before that
\* sentinel.
C23_TrailingSentinelDecides ==
  (Completed /\ ret.kind = "return" /\ prog.kind # "none" /\ ~prog.killed) =>
    LET ls == ScriptLines(prog)
    IN  /\ ret.r.exitCode = ls[Len(ls)].sent
        /\ CleanOutput(LogOutput(prog)) = Trim(SubSeq(ls, 1, Len(ls) - 1))

\* the split as claimed: acc = [open, out, err], the section being open when
\* the line before was put in the error section
ClaimSplitStep(acc, line) ==
  IF \E sig \in ExecSignatures : sig \in line.f
  THEN [open |-> TRUE, out |-> acc.out, err |-> Append(acc.err, line)]
  ELSE IF acc.open /\ ("blank" \in line.f \/ "^caret" \in line.f
                        \/ "warning:" \notin line.f)
  THEN [open |-> TRUE, out |-> acc.out, err |-> Append(acc.err, line)]
  ELSE [open |-> FALSE, out |-> Append(acc.out, line), err |-> acc.err]

RECURSIVE ClaimSplit(_, _)
ClaimSplit(acc, ls) ==
  IF ls = << >> THEN acc ELSE ClaimSplit(ClaimSplitStep(acc, Head(ls)), Tail(ls))

\* C24: a line goes to the error section exactly when it matches a signature
\* or continues an open error section (a blank line, a caret line or a
\* non-warning line right after a line of the error section); every other
\* line goes to the program output.
C24_SplitAsClaimed ==
  (fn = "splitOutput" /\ val.done) =>
    LET claimed == ClaimSplit([open |-> FALSE, out |-> << >>, err |-> << >>],
                              IF arg = << >> THEN <<Blank>> ELSE arg)
    IN  /\ val.v.err = claimed.err
        /\ val.v.out = claimed.out

\* C25: a result with exitCode # 0 never has empty errors; when it was built
\* from a log in which no line matched a signature, errors is the whole text
\* before the sentinel, or the fixed message when that text is empty.
C25_FailureHasErrors ==
  (Completed /\ ret.kind = "return" /\ ret.r.exitCode # 0) =>
    /\ ret.r.errors # << >>
    /\ (prog.kind # "none" /\ "inspectExit:fail" \notin hist) =>
         LET i    == SentinelIndex(LogOutput(prog))
             text == IF i = 0 THEN LogOutput(prog)
                     ELSE Trim(SubSeq(LogOutput(prog), 1, i - 1)
                                 \o <<CutBefore(LogOutput(prog)[i])>>)
         IN  (\A k \in 1..Len(text) : \A sig \in ExecSignatures : sig \notin text[k].f)
               => IF text = << >>
                  THEN /\ Len(ret.r.errors) = 1
                       /\ ret.r.errors[1].id =
                            "Compilation or execution failed with no error message"
                  ELSE ret.r.errors = text

\* a program that printed a plain line and exited 1
C25_Witness ==
  /\ Completed
  /\ ret.kind = "return"
  /\ prog.kind = "main"
  /\ prog.compileOut = << >>
  /\ prog.runOut = <<Plain>>
  /\ prog.runExit = 1
  /\ ret.r.exitCode = 1
  /\ ret.r.errors = <<Plain>>

\* the steps of executeCode's try block that failed in this call
FailedSteps ==
  hist \cap {"image:fail", "create:fail", "start:fail", "wait:fail", "timeout",
             "logs:fail", "inspectExit:fail"}

\* C26: within one executeCode call no Docker call of the try block is made
\* twice (one create, one start, one wait, one kill even when it failed, one
\* log fetch), no container is created after ensuring the image failed, at
\* most one step fails, and the failure is what the one returned result
\* reports: a failure result with a single message.
C26_NothingRetried ==
  /\ \A k \in {"image", "create", "start", "wait", "kill", "logs", "inspectExit"} :
       calls[k] <= 1
  /\ "image:fail" \in hist => calls["create"] = 0 /\ calls["start"] = 0
  /\ "create:fail" \in hist => calls["start"] = 0
  /\ "kill:fail" \in hist => calls["kill"] = 1
  /\ Cardinality(FailedSteps \ {"wait:fail"}) <= 1
  /\ (Completed /\ FailedSteps # {}) =>
       /\ ret.kind = "return"
       /\ ret.r.exitCode \in {1, 124}
       /\ Len(ret.r.errors) = 1
       /\ ret.r.output = << >>

\* the timer fired, the one kill failed, and the call still returned
C26_Witness ==
  /\ Completed
  /\ "timeout" \in hist
  /\ "kill:fail" \in hist
  /\ calls["kill"] = 1
  /\ calls["create"] = 1
  /\ calls["start"] = 1
  /\ calls["logs"] = 0
  /\ ret.kind = "return"
  /\ ret.r.exitCode = 124

\* the container was started in this call
Started == calls["start"] = 1 /\ "start:fail" \notin hist

\* C27 as claimed: on every completion path after the container was started,
\* the container having stopped or the timer having fired, the logs are
\* fetched exactly once.
C27_LogsOnEveryPath ==
  (Completed /\ Started) => calls["logs"] = 1

\* C27 as amended: the logs are fetched at most once, never while the wait is
\* pending and never after teardown began; a call whose wait resolved fetches
\* them exactly once, and a call whose wait was ended by the timer or by a
\* rejection never fetches them.
C27_LogsOnceAfterWait ==
  /\ calls["logs"] <= 1
  /\ pc \in {"wait", "kill"} => calls["logs"] = 0
  /\ pc = "logs" => /\ calls["logs"] = 0
                    /\ calls["wait"] = 1
                    /\ calls["inspect"] = 0 /\ calls["remove"] = 0
  /\ (Completed /\ Started) =>
       IF hist \cap {"timeout", "wait:fail"} = {}
       THEN calls["logs"] = 1
       ELSE calls["logs"] = 0

\* the wait resolved, the logs were fetched once and teardown followed
C27_Witness ==
  /\ Completed
  /\ Started
  /\ hist \cap {"timeout", "wait:fail"} = {}
  /\ calls["logs"] = 1
  /\ calls["inspect"] = 1
  /\ prog.kind = "main"

\* no Docker call of this executeCode call failed for a reason of the daemon
\* itself, and the timer did not fire
DaemonAnswers ==
  /\ "timeout" \notin hist
  /\ hist \cap {"image:fail", "create:fail", "start:fail"} = {}
  /\ rejected \notin DaemonErrors
  /\ ret.kind = "return" =>
       /\ \A m \in DaemonErrors : ret.r.errors # <<ExecErr(m)>>
       /\ ret.r.errors # <<TimeoutMsg>>

\* C28: when the script ran to completion before the timer, the result is
\* the one built from the script's log, the exit code being the sentinel's,
\* however the runtime's removal of the exited container interleaves with
\* the wait, the log fetch and the inspect.
C28_SameResultUnderAutoRemove ==
  (Completed /\ Started /\ DaemonAnswers) =>
    /\ ret.kind = "return"
    /\ prog.kind # "none"
    /\ ~prog.killed =>
         ret.r = BuildResult(LogOutput(prog),
                             LogOutput(prog)[SentinelIndex(LogOutput(prog))].sent)

\* C29: every testResults that classify returns has 0 <= passed <= total and
\* no more failures than total, whether the counts come from the Summary line
\* or are inferred from the FAILED lines.
C29_CountsConsistent ==
  (Classified /\ "testResults" \in outcome.t.has) =>
    /\ 0 <= outcome.t.testResults.passed
    /\ outcome.t.testResults.passed <= outcome.t.testResults.total
    /\ Len(outcome.t.testResults.failures) <= outcome.t.testResults.total

\* C30: an executeCode call that was entered eventually returns a result,
\* also when the program in the container never ends, provided the Docker
\* calls other than wait are answered and the timer goes off.
C30_EventuallyReturns ==
  (pc = "ensureImage") ~> (Completed /\ ret.kind = "return")

\* the program never ended, the timer ended the wait and the call returned
C30_Witness ==
  /\ Completed
  /\ ret.kind = "return"
  /\ stalls
  /\ "timeout" \in hist
  /\ calls["kill"] = 1
  /\ ret.r.exitCode = 124

====
